---- MODULE Spec2Model ----
(***************************************************************************)
(* The request pipeline of hikari.net.http_client.HTTPClient: _request,    *)
(* _handle_bad_response and close, together with the collaborators they    *)
(* drive (the bucket rate limiter manager, the global rate limiter and the *)
(* exponential backoff of hikari.net.ratelimits).                          *)
(*                                                                         *)
(* Time is discrete; one tick is one second.  Every instant the program    *)
(* keeps (bucket reset, global throttle-until, end of a backoff sleep) is  *)
(* held as the number of ticks still to elapse, so "before the instant T"  *)
(* reads "while the countdown is positive".                                *)
(*                                                                         *)
(* Responses always carry well-formed Date and Content-Type headers and    *)
(* well-formed numbers in the rate-limit headers they do carry; the        *)
(* rate-limit headers themselves may each be absent.                       *)
(***************************************************************************)
EXTENDS Integers, Sequences, FiniteSets, TLC

VARIABLES
    pc,          \* per request: where the coroutine _request is suspended
    route,       \* per request: bucket discriminator of its compiled route
    fut,         \* per request: the future returned by ratelimiter.acquire
    gfut,        \* per request: the future of this attempt's global acquire
    increment,   \* per request: attempt counter of its ExponentialBackOff
    sleep,       \* per request: ticks left of the asyncio.sleep of a backoff
    outcome,     \* per request: what _request returned or raised
    last,        \* per request (history): the response its latest attempt
                 \* ended with; none while it has none or is being sent,
                 \* and in the runs that keep no history (see Recorded)
    pos,         \* per request: read position of its re-seekable resource
    permit,      \* per request (history): the bucket limiter has admitted it
                 \* since its last transport call
    bucket,      \* per discriminator: the manager's bucket state
    queue,       \* per discriminator: requests waiting for a permit, FIFO
    throttleIn,  \* per client: ticks left until the throttle-until instant
                 \* of its global limiter
    remote,      \* which responses the remote service sends in this run
    owner,       \* per request: the client object it is issued through
    closed,      \* per client: close() has been called
    op           \* the latest operation applied outside the request loop,
                 \* with its arguments and what it gave

vars == <<pc, route, fut, gfut, increment, sleep, outcome, last, pos,
          permit, bucket, queue, throttleIn, remote, owner, closed, op>>

---------------------------------------------------------------------------
(* Bounds *)

NumReq == 2        \* logical requests issued in a run
MaxLimit == 2      \* largest rate-limit ceiling the server reports
MaxDelta == 2      \* largest (reset - now) the server reports, in ticks
MaxIncrement == 3  \* attempts a backoff grants before it signals exhaustion
ClockSkew == 1000  \* seconds the local clock is ahead of the server's

\* ExponentialBackOff: cap of a delay before jitter, in ticks.
BackoffCap == 2

Requests == 1..NumReq
Discriminators == {"A", "B"}
Clients == {"main", "other"}

Max(a, b) == IF a >= b THEN a ELSE b
Min(a, b) == IF a <= b THEN a ELSE b

---------------------------------------------------------------------------
(* Responses of the remote service *)

ABSENT == "-"

\* A response body as the client sees it after json_deserialize: "raw" is a
\* body that is never decoded, "invalid" one that is no JSON document.
\* Members of an object hold the JSON text of their value, or ABSENT.
NonObject(k) ==
    [kind |-> k, message |-> ABSENT, code |-> ABSENT, global |-> ABSENT,
     retry_after |-> ABSENT]

Object(m, c, g, ra) ==
    [kind |-> "object", message |-> m, code |-> c, global |-> g,
     retry_after |-> ra]

RawBody == NonObject("raw")
NoneBody == NonObject("null")

JsonBodies ==
    { NonObject("invalid"), NoneBody, NonObject("array"),
      Object(ABSENT, ABSENT, ABSENT, ABSENT),
      Object("\"m\"", "10008", ABSENT, ABSENT),
      Object("\"m\"", "\"bad\"", ABSENT, ABSENT),
      Object("\"m\"", "null", ABSENT, ABSENT),
      Object("\"m\"", ABSENT, ABSENT, ABSENT),
      Object(ABSENT, "10008", ABSENT, ABSENT),
      Object("\"m\"", ABSENT, "false", "1000"),
      Object("\"m\"", ABSENT, "true", "1000"),
      Object(ABSENT, ABSENT, "true", "2000"),
      Object(ABSENT, ABSENT, "true", ABSENT) }

ContentTypes == {"application/json", "text/plain", "text/html", "image/png"}

Statuses == {200, 204, 302, 400, 401, 403, 404, 409, 429, 500}

\* The rate-limit headers of a response; -1 stands for a header that is
\* absent.  date is the server's clock (the Date header), reset the epoch
\* second of X-RateLimit-Reset.
ServerNow == 100

Header(l, r, b, rs) ==
    [limit |-> l, remaining |-> r, bucket |-> b, reset |-> rs,
     date |-> ServerNow]

NoRateLimitHeaders == Header(-1, -1, ABSENT, -1)

\* <<ceiling, remaining>> as a server reports them together.
Quotas == { q \in (1..MaxLimit) \X (0..MaxLimit) : q[2] <= q[1] }

\* What the server sends: every quota with the latest reset, an exhausted
\* quota with every reset, no rate-limit header at all, and the remaining
\* count without the ceiling.
Headers ==
    { Header(q[1], q[2], "abc", ServerNow + MaxDelta) : q \in Quotas }
    \cup { Header(l, 0, "abc", ServerNow + k) :
             l \in 1..MaxLimit, k \in 0..MaxDelta }
    \cup { NoRateLimitHeaders }
    \cup { Header(-1, r, "abc", ServerNow + MaxDelta) : r \in 0..MaxLimit }

Response(s, ct, b, h) == [status |-> s, ctype |-> ct, body |-> b, hdr |-> h]

NoResponse == Response(0, ABSENT, RawBody, NoRateLimitHeaders)

AllResponses ==
    { Response(s, "application/json", b, h) :
        s \in Statuses, b \in JsonBodies, h \in Headers }
    \cup { Response(s, ct, RawBody, h) :
        s \in Statuses, ct \in ContentTypes \ {"application/json"},
        h \in Headers }

---------------------------------------------------------------------------
(* Python conversions applied to the JSON text of a member *)

Ok(v) == [exc |-> "none", val |-> v]
Exc(e) == [exc |-> e, val |-> 0]

\* int(x) for the value x of a member: a JSON number or a numeric string
\* converts, any other string raises ValueError, null raises TypeError.
PyInt(t) ==
    CASE t = "10008" -> Ok(10008)
      [] t = "1000" -> Ok(1000)
      [] t = "2000" -> Ok(2000)
      [] t = "true" -> Ok(1)
      [] t = "false" -> Ok(0)
      [] t = "null" -> Exc("TypeError")
      [] OTHER -> Exc("ValueError")

\* float(x), in the unit of x.
PyFloat(t) ==
    CASE t = "1000" -> Ok(1000)
      [] t = "2000" -> Ok(2000)
      [] t = "10008" -> Ok(10008)
      [] t = "true" -> Ok(1)
      [] t = "false" -> Ok(0)
      [] t = "null" -> Exc("TypeError")
      [] OTHER -> Exc("ValueError")

\* Truth value of x in `if x:`.
PyTruthy(t) == t \notin {"false", "null", "0", "\"\""}

\* body[key]: None and a list raise TypeError, an object without the key
\* raises KeyError.
Subscript(body, key) ==
    IF body.kind # "object" THEN Exc("TypeError")
    ELSE LET v == CASE key = "message" -> body.message
                    [] key = "code" -> body.code
                    [] key = "global" -> body.global
                    [] key = "retry_after" -> body.retry_after
         IN IF v = ABSENT THEN Exc("KeyError") ELSE Ok(v)

---------------------------------------------------------------------------
(* The steps of HTTPClient._request between two suspension points *)

\* The arguments of update_rate_limits with remaining and limit in each
\* other's place.
ParseHeadersSwapped(hdr) ==
    [limit |-> IF hdr.remaining = -1 THEN 1 ELSE hdr.remaining,
     remaining |-> IF hdr.limit = -1 THEN 1 ELSE hdr.limit,
     bucket |-> IF hdr.bucket = ABSENT THEN "None" ELSE hdr.bucket,
     reset_date |-> IF hdr.reset = -1 THEN 0 ELSE hdr.reset,
     now_date |-> hdr.date]

\* The rate-limit headers with a default of no remaining call.
ParseHeadersNoneLeft(hdr) ==
    [limit |-> IF hdr.limit = -1 THEN 1 ELSE hdr.limit,
     remaining |-> IF hdr.remaining = -1 THEN 0 ELSE hdr.remaining,
     bucket |-> IF hdr.bucket = ABSENT THEN "None" ELSE hdr.bucket,
     reset_date |-> IF hdr.reset = -1 THEN 0 ELSE hdr.reset,
     now_date |-> hdr.date]

\* Lines 188-193: the rate-limit headers with the defaults of headers.get,
\* and the server's clock; both dates are epoch seconds.
ParseHeaders(hdr) ==
    [limit |-> IF hdr.limit = -1 THEN 1 ELSE hdr.limit,
     remaining |-> IF hdr.remaining = -1 THEN 1 ELSE hdr.remaining,
     bucket |-> IF hdr.bucket = ABSENT THEN "None" ELSE hdr.bucket,
     reset_date |-> IF hdr.reset = -1 THEN 0 ELSE hdr.reset,
     now_date |-> hdr.date]

\* Lines 198-212: what the content type makes of the body.  "decoded" has a
\* body, "raised" is json_deserialize failing, "bad" is the branch that
\* calls _handle_bad_response and continues.
DecodeBody(resp) ==
    IF resp.ctype = "application/json"
    THEN IF resp.body.kind = "invalid"
         THEN [how |-> "raised", body |-> NoneBody]
         ELSE [how |-> "decoded", body |-> resp.body]
    ELSE IF resp.ctype \in {"text/plain", "text/html"}
    THEN [how |-> "bad", body |-> NoneBody]
    ELSE [how |-> "decoded", body |-> NoneBody]

\* The 429 branch throttling whatever the flag says: body["global"] is read
\* and not tested.
RateLimitedThrottleAnyScope(body) ==
    LET g == Subscript(body, "global") IN
    IF g.exc # "none" THEN g
    ELSE LET ra == Subscript(body, "retry_after") IN
         IF ra.exc # "none" THEN ra
         ELSE LET f == PyFloat(ra.val) IN
              IF f.exc # "none" THEN f ELSE Ok(f.val \div 1000)

\* The 429 branch with retry_after taken for seconds: the division by 1000
\* left out.
RateLimitedThrottleMillis(body) ==
    LET g == Subscript(body, "global") IN
    IF g.exc # "none" THEN g
    ELSE IF ~PyTruthy(g.val) THEN Ok(-1)
    ELSE LET ra == Subscript(body, "retry_after") IN
         IF ra.exc # "none" THEN ra ELSE PyFloat(ra.val)

\* Lines 220-221: the seconds to throttle the global limiter for on a 429:
\* Ok(-1) when the body is not flagged global.
RateLimitedThrottle(body) ==
    LET g == Subscript(body, "global") IN
    IF g.exc # "none" THEN g
    ELSE IF ~PyTruthy(g.val) THEN Ok(-1)
    ELSE LET ra == Subscript(body, "retry_after") IN
         IF ra.exc # "none" THEN ra
         ELSE LET f == PyFloat(ra.val) IN
              IF f.exc # "none" THEN f ELSE Ok(f.val \div 1000)

\* A message and a code extracted without an exception.
Extracted(m, c) == [exc |-> "none", message |-> m, code |-> c]

\* Lines 226-230: message and code of an error body; ValueError and
\* KeyError give the defaults, any other exception propagates.
ExtractError(body) ==
    LET m == Subscript(body, "message") IN
    IF m.exc \in {"ValueError", "KeyError"} THEN Extracted("", -1)
    ELSE IF m.exc # "none" THEN [exc |-> m.exc, message |-> "", code |-> -1]
    ELSE LET c == Subscript(body, "code") IN
         IF c.exc \in {"ValueError", "KeyError"} THEN Extracted("", -1)
         ELSE IF c.exc # "none"
         THEN [exc |-> c.exc, message |-> "", code |-> -1]
         ELSE LET i == PyInt(c.val) IN
              IF i.exc \in {"ValueError", "KeyError"} THEN Extracted("", -1)
              ELSE IF i.exc # "none"
              THEN [exc |-> i.exc, message |-> "", code |-> -1]
              ELSE Extracted(m.val, i.val)

\* Lines 232-241: the error raised for a status >= 400, "" for a status
\* that raises none here (>= 500).
ErrorClass(s) ==
    IF s = 400 THEN "BadRequestHTTPError"
    ELSE IF s = 401 THEN "UnauthorizedHTTPError"
    ELSE IF s = 403 THEN "ForbiddenHTTPError"
    ELSE IF s = 404 THEN "NotFoundHTTPError"
    ELSE IF s < 500 THEN "ClientHTTPError"
    ELSE ""

ClientErrors ==
    {"BadRequestHTTPError", "UnauthorizedHTTPError", "ForbiddenHTTPError",
     "NotFoundHTTPError", "ClientHTTPError"}

---------------------------------------------------------------------------
(* hikari.net.ratelimits as the pipeline drives it *)

\* HTTPBucketRateLimiterManager: a discriminator's bucket before its first
\* response is unknown; probe is the request holding its single slot.
UnknownBucket ==
    [known |-> FALSE, remaining |-> 1, limit |-> 1, resetIn |-> 0,
     id |-> "None", probe |-> 0]

KnownBucket(rem, lim, rst, bid) ==
    [known |-> TRUE, remaining |-> rem, limit |-> lim, resetIn |-> rst,
     id |-> bid, probe |-> 0]

\* An acquire that lets a caller of a known bucket through whatever is
\* left of its quota and of its window.
CanAdmitBeforeReset(b) == IF ~b.known THEN b.probe = 0 ELSE TRUE

\* acquire: whether the bucket lets a caller through now.
CanAdmit(b) ==
    IF ~b.known THEN b.probe = 0
    ELSE b.remaining > 0 \/ b.resetIn = 0

\* acquire: the bucket after letting r through.
Admit(b, r) ==
    IF ~b.known THEN [b EXCEPT !.probe = r]
    ELSE IF b.remaining > 0 THEN [b EXCEPT !.remaining = @ - 1]
    ELSE [b EXCEPT !.remaining = b.limit]

\* The local clock when a response dated serverNow is handled: the client's
\* clock runs ClockSkew seconds ahead of the server's.
LocalNow(serverNow) == serverNow + ClockSkew

\* A manager that takes the server's reset for an instant of its own clock.
ResetInstantOfServerClock(localNow, p) == p.reset_date

\* update_rate_limits: the reset instant on the local clock is
\* local now + (server reset - server now).
ResetInstant(localNow, p) == localNow + (p.reset_date - p.now_date)

\* update_rate_limits: the server's values replace the local ones; the
\* bucket keeps the ticks from the local now to its reset instant, none if
\* the instant is past.
UpdateRateLimits(b, p) ==
    LET localNow == LocalNow(p.now_date) IN
    KnownBucket(p.remaining, p.limit,
                Max(0, ResetInstant(localNow, p) - localNow), p.bucket)

\* ManualRateLimiter.acquire and .throttle.
GlobalAcquire(t) == IF t = 0 THEN "done" ELSE "pending"

\* A throttle that overwrites the instant it finds.
ThrottleOverwrites(t, seconds) == seconds

Throttle(t, seconds) == Max(t, seconds)

\* ExponentialBackOff.__next__: exhaustion after MaxIncrement delays, else
\* min(base * multiplier^i, cap) plus a jitter below that.
BackoffExhausted(i) == i >= MaxIncrement

BackoffDelays(i) ==
    LET dl == Min(2 ^ i, BackoffCap) IN dl..(2 * dl - 1)

---------------------------------------------------------------------------
(* What _request returns or raises *)

\* kind is "returned" or the class of the exception; passed names what the
\* exception was constructed with; status is the status of the response
\* that ended the request.
NoOutcome ==
    [kind |-> "none", passed |-> {}, message |-> "", code |-> 0,
     status |-> 0, value |-> RawBody]

\* Line 248: return body.
Returned(body, s) ==
    [kind |-> "returned", passed |-> {}, message |-> "", code |-> 0,
     status |-> s, value |-> body]

\* An exception no handler of _request names.
Escaped(e, s) ==
    [kind |-> e, passed |-> {}, message |-> "", code |-> 0,
     status |-> s, value |-> RawBody]

\* Lines 232-241: errors.<cls>(compiled_route, message, code); the generic
\* ClientHTTPError is also given the status, in its reason.
ClientError(s, m, c) ==
    [kind |-> ErrorClass(s),
     passed |-> IF ErrorClass(s) = "ClientHTTPError"
                THEN {"route", "message", "code", "status"}
                ELSE {"route", "message", "code"},
     message |-> m, code |-> c, status |-> s, value |-> RawBody]

\* Line 256: errors.ServerHTTPError(reason, route, message, status).
ServerError(s, m) ==
    [kind |-> "ServerHTTPError", passed |-> {"route", "message", "status"},
     message |-> m, code |-> 0, status |-> s, value |-> RawBody]

Handled(step, upd, thr, inc, slp, out) ==
    [step |-> step, update |-> upd, throttle |-> thr, increment |-> inc,
     sleep |-> slp, out |-> out]

\* _handle_bad_response given a backoff that never advances: it yields its
\* first delays for ever.
HandleBadResponseNoAdvance(upd, inc, d, m, s) ==
    Handled("backoff", upd, -1, inc, d, NoOutcome)

\* _handle_bad_response given a backoff made anew for the attempt: the
\* delay it sleeps is always the first one.
HandleBadResponseFreshBackoff(upd, inc, d, m, s) ==
    IF BackoffExhausted(inc)
    THEN Handled("raise", upd, -1, inc, 0, ServerError(s, m))
    ELSE Handled("backoff", upd, -1, 1, d, NoOutcome)

\* _handle_bad_response with the exhaustion of the backoff swallowed: it
\* sleeps and lets the loop go on whatever the backoff says.
HandleBadResponseNeverRaises(upd, inc, d, m, s) ==
    Handled("backoff", upd, -1, inc + 1, d, NoOutcome)

\* Lines 250-256, _handle_bad_response: the next delay d of the backoff is
\* slept, or its exhaustion (asyncio.TimeoutError) becomes ServerHTTPError.
HandleBadResponse(upd, inc, d, m, s) ==
    IF BackoffExhausted(inc)
    THEN Handled("raise", upd, -1, inc, 0, ServerError(s, m))
    ELSE Handled("backoff", upd, -1, inc + 1, d, NoOutcome)

\* Lines 196-248: what one response makes of the request, given the attempt
\* counter inc of its backoff and the delay d the backoff yields if asked.
Interpret(resp, inc, d) ==
    LET dec == DecodeBody(resp)
        body == dec.body
        s == resp.status
    IN
    IF dec.how = "raised"
    THEN Handled("crash", FALSE, -1, inc, 0, Escaped("ValueError", s))
    ELSE IF dec.how = "bad"
    THEN HandleBadResponse(FALSE, inc, d, "raw", s)
    ELSE IF s = 429
    THEN LET t == RateLimitedThrottle(body) IN
         IF t.exc # "none"
         THEN Handled("crash", TRUE, -1, inc, 0, Escaped(t.exc, s))
         ELSE Handled("retry", TRUE, t.val, inc, 0, NoOutcome)
    ELSE IF s >= 400
    THEN LET e == ExtractError(body) IN
         IF e.exc # "none"
         THEN Handled("crash", TRUE, -1, inc, 0, Escaped(e.exc, s))
         ELSE IF ErrorClass(s) # ""
         THEN Handled("raise", TRUE, -1, inc, 0,
                      ClientError(s, e.message, e.code))
         ELSE HandleBadResponse(TRUE, inc, d, e.message, s)
    ELSE Handled("return", TRUE, -1, inc, 0, Returned(body, s))

\* The delays the backoff can yield while resp is handled: 0 when it is not
\* asked or is exhausted.
DelayChoices(resp, inc) ==
    IF Interpret(resp, inc, 0).step = "backoff" THEN BackoffDelays(inc)
    ELSE {0}

---------------------------------------------------------------------------
(* The remote service *)

\* The responses of a run whose remote service is well behaved: a success,
\* a bucket-scope and a global-scope rate limit, each a JSON object with
\* its rate-limit headers, and the error page of a failing gateway.
BasicResponses ==
    { Response(200, "application/json",
               Object(ABSENT, ABSENT, ABSENT, ABSENT),
               Header(1, 0, "abc", ServerNow + 1)),
      Response(200, "application/json",
               Object(ABSENT, ABSENT, ABSENT, ABSENT),
               Header(MaxLimit, MaxLimit - 1, "abc", ServerNow + 1)),
      Response(429, "application/json",
               Object("\"m\"", ABSENT, "false", "1000"),
               Header(1, 0, "abc", ServerNow + 1)),
      Response(429, "application/json",
               Object("\"m\"", ABSENT, "true", "1000"),
               Header(1, 0, "abc", ServerNow + 1)),
      Response(500, "text/html", RawBody, NoRateLimitHeaders) }

\* The responses of a run whose remote service rate limits globally: a
\* success, global-scope rate limits of one and of two seconds, and the
\* error page of a failing gateway.
GlobalResponses ==
    { Response(200, "application/json",
               Object(ABSENT, ABSENT, ABSENT, ABSENT),
               Header(MaxLimit, MaxLimit - 1, "abc", ServerNow + 1)),
      Response(429, "application/json",
               Object("\"m\"", ABSENT, "true", "1000"),
               Header(MaxLimit, MaxLimit - 1, "abc", ServerNow + 1)),
      Response(429, "application/json",
               Object(ABSENT, ABSENT, "true", "2000"),
               Header(MaxLimit, MaxLimit - 1, "abc", ServerNow + 1)),
      Response(500, "text/html", RawBody, NoRateLimitHeaders) }

Menu(m) ==
    CASE m = "any" -> AllResponses
      [] m = "global" -> GlobalResponses
      [] OTHER -> BasicResponses

InMenu(resp, m) ==
    CASE m = "any" -> TRUE
      [] m = "global" -> resp \in GlobalResponses
      [] OTHER -> resp \in BasicResponses

\* The history of handled responses is kept in the runs that study the
\* handling of the responses themselves: those of a remote that may answer
\* anything and those of a remote that rate limits globally.
Recorded(resp, m) == IF m \in {"any", "global"} THEN resp ELSE NoResponse

\* No operation outside the request loop has been applied.
NoOp == [name |-> "none"]

---------------------------------------------------------------------------
(* Actions *)

\* A loop that leaves the resources where the last attempt left them.
SeekNothing(r) == pos

\* Lines 140-141: every re-seekable resource of request r is put back to
\* its start.
Seek(r) == [pos EXCEPT ![r] = 0]

\* The gather of line 147 without the future of the bucket limiter.
GatherGlobalOnly(r) == gfut[r] = "done"

\* Line 147: asyncio.gather(future, global_ratelimiter.acquire()) is over.
GatherDone(r) == fut[r] = "done" /\ gfut[r] = "done"

\* A call whose manager keeps one line of waiters for all discriminators: r
\* is admitted at once only if nobody waits for any bucket.
CallBehindAnyWaiter(r) ==
    /\ pc[r] = "idle"
    /\ ~closed[owner[r]]
    /\ LET d == route[r] IN
       IF (\A e \in Discriminators : queue[e] = <<>>) /\ CanAdmit(bucket[d])
       THEN /\ bucket' = [bucket EXCEPT ![d] = Admit(@, r)]
            /\ fut' = [fut EXCEPT ![r] = "done"]
            /\ permit' = [permit EXCEPT ![r] = TRUE]
            /\ queue' = queue
       ELSE /\ queue' = [queue EXCEPT ![d] = Append(@, r)]
            /\ fut' = [fut EXCEPT ![r] = "pending"]
            /\ UNCHANGED <<bucket, permit>>
    /\ increment' = [increment EXCEPT ![r] = 0]
    /\ pos' = Seek(r)
    /\ gfut' = [gfut EXCEPT ![r] = GlobalAcquire(throttleIn[owner[r]])]
    /\ pc' = [pc EXCEPT ![r] = "acquiring"]
    /\ UNCHANGED <<route, sleep, outcome, last, throttleIn, remote, owner,
                   closed, op>>

\* Lines 123-147: the call up to its first suspension, made through a
\* client that is open.  The manager admits r at once or queues it; the
\* backoff is created; the loop is entered.
Call(r) ==
    /\ pc[r] = "idle"
    /\ ~closed[owner[r]]
    /\ LET d == route[r] IN
       IF queue[d] = <<>> /\ CanAdmit(bucket[d])
       THEN /\ bucket' = [bucket EXCEPT ![d] = Admit(@, r)]
            /\ fut' = [fut EXCEPT ![r] = "done"]
            /\ permit' = [permit EXCEPT ![r] = TRUE]
            /\ queue' = queue
       ELSE /\ queue' = [queue EXCEPT ![d] = Append(@, r)]
            /\ fut' = [fut EXCEPT ![r] = "pending"]
            /\ UNCHANGED <<bucket, permit>>
    /\ increment' = [increment EXCEPT ![r] = 0]
    /\ pos' = Seek(r)
    /\ gfut' = [gfut EXCEPT ![r] = GlobalAcquire(throttleIn[owner[r]])]
    /\ pc' = [pc EXCEPT ![r] = "acquiring"]
    /\ UNCHANGED <<route, sleep, outcome, last, throttleIn, remote, owner,
                   closed, op>>

\* A manager that lets the latest waiter of discriminator d through.
BucketAdmitLatest(d) ==
    /\ queue[d] # <<>>
    /\ CanAdmit(bucket[d])
    /\ LET r == queue[d][Len(queue[d])] IN
       /\ bucket' = [bucket EXCEPT ![d] = Admit(@, r)]
       /\ fut' = [fut EXCEPT ![r] = "done"]
       /\ permit' = [permit EXCEPT ![r] = TRUE]
    /\ queue' = [queue EXCEPT ![d] = SubSeq(@, 1, Len(@) - 1)]
    /\ UNCHANGED <<pc, route, gfut, increment, sleep, outcome, last, pos,
                   throttleIn, remote, owner, closed, op>>

\* The manager lets the first waiter of discriminator d through.
BucketAdmit(d) ==
    /\ queue[d] # <<>>
    /\ CanAdmit(bucket[d])
    /\ LET r == Head(queue[d]) IN
       /\ bucket' = [bucket EXCEPT ![d] = Admit(@, r)]
       /\ fut' = [fut EXCEPT ![r] = "done"]
       /\ permit' = [permit EXCEPT ![r] = TRUE]
    /\ queue' = [queue EXCEPT ![d] = Tail(@)]
    /\ UNCHANGED <<pc, route, gfut, increment, sleep, outcome, last, pos,
                   throttleIn, remote, owner, closed, op>>

\* A global limiter that resolves a waiting acquire whatever the throttle.
GlobalAdmitEarly(r) ==
    /\ gfut[r] = "pending"
    /\ pc[r] = "acquiring"
    /\ gfut' = [gfut EXCEPT ![r] = "done"]
    /\ UNCHANGED <<pc, route, fut, increment, sleep, outcome, last, pos,
                   permit, bucket, queue, throttleIn, remote, owner,
                   closed, op>>

\* The global limiter resolves a waiting acquire once the throttle is over.
GlobalAdmit(r) ==
    /\ gfut[r] = "pending"
    /\ pc[r] = "acquiring"
    /\ throttleIn[owner[r]] = 0
    /\ gfut' = [gfut EXCEPT ![r] = "done"]
    /\ UNCHANGED <<pc, route, fut, increment, sleep, outcome, last, pos,
                   permit, bucket, queue, throttleIn, remote, owner,
                   closed, op>>

\* Lines 147-175: the gather is over and the transport call starts; the
\* transport reads the resource from its position to its end.
Send(r) ==
    /\ pc[r] = "acquiring"
    /\ GatherDone(r)
    /\ pc' = [pc EXCEPT ![r] = "sending"]
    /\ pos' = [pos EXCEPT ![r] = 1]
    /\ permit' = [permit EXCEPT ![r] = FALSE]
    /\ last' = [last EXCEPT ![r] = NoResponse]
    /\ UNCHANGED <<route, fut, gfut, increment, sleep, outcome,
                   bucket, queue, throttleIn, remote, owner, closed, op>>

\* The steps of Interpret that end the coroutine; its locals (the futures,
\* the backoff) end with it.
Ends(step) == step \in {"return", "raise", "crash"}

\* Lines 175-248: the response arrives and is handled up to the next
\* suspension: the sleep of a backoff, the gather of the next attempt, or
\* the end of the request.
Receive(r, resp, d) ==
    /\ pc[r] = "sending"
    /\ InMenu(resp, remote)
    /\ \E h \in {Interpret(resp, increment[r], d)} :
       /\ IF h.step = "backoff" THEN d \in BackoffDelays(increment[r])
          ELSE d = 0
       /\ bucket' = IF h.update
                    THEN [bucket EXCEPT ![route[r]] =
                            UpdateRateLimits(@, ParseHeaders(resp.hdr))]
                    ELSE bucket
       /\ throttleIn' = IF h.throttle >= 0
                        THEN [throttleIn EXCEPT ![owner[r]] =
                                Throttle(@, h.throttle)]
                        ELSE throttleIn
       /\ increment' = [increment EXCEPT ![r] =
                          IF Ends(h.step) THEN 0 ELSE h.increment]
       /\ sleep' = [sleep EXCEPT ![r] = h.sleep]
       /\ outcome' = [outcome EXCEPT ![r] = h.out]
       /\ last' = [last EXCEPT ![r] = Recorded(resp, remote)]
       /\ pc' = [pc EXCEPT ![r] =
                   CASE h.step = "retry" -> "acquiring"
                     [] h.step = "backoff" -> "backoff"
                     [] h.step = "return" -> "done"
                     [] h.step = "raise" -> "failed"
                     [] h.step = "crash" -> "crashed"]
       /\ pos' = IF h.step = "retry" THEN Seek(r) ELSE pos
       /\ gfut' = [gfut EXCEPT ![r] =
                     IF h.step = "retry"
                     THEN GlobalAcquire(throttleIn'[owner[r]])
                     ELSE IF Ends(h.step) THEN "none" ELSE @]
       /\ fut' = [fut EXCEPT ![r] = IF Ends(h.step) THEN "none" ELSE @]
    /\ UNCHANGED <<route, permit, queue, remote, owner, closed, op>>

\* The remote service answers the transport call of r, with any response of
\* the run's menu; the backoff, if asked, yields any of its next delays.
Respond(r) ==
    /\ pc[r] = "sending"
    /\ \E resp \in Menu(remote) :
          \E d \in DelayChoices(resp, increment[r]) : Receive(r, resp, d)

\* Lines 254 and 137-147: the sleep of the backoff is over and the loop is
\* entered again.
Wake(r) ==
    /\ pc[r] = "backoff"
    /\ sleep[r] = 0
    /\ pc' = [pc EXCEPT ![r] = "acquiring"]
    /\ pos' = Seek(r)
    /\ gfut' = [gfut EXCEPT ![r] = GlobalAcquire(throttleIn[owner[r]])]
    /\ UNCHANGED <<route, fut, increment, sleep, outcome, last, permit,
                   bucket, queue, throttleIn, remote, owner, closed, op>>

\* The caller cancels the task of the request at a suspension point: the
\* gather cancels the futures it still waits for (a cancelled future leaves
\* the manager's queue), nothing else of _request runs and its locals end.
Cancel(r) ==
    /\ pc[r] \in {"acquiring", "sending", "backoff"}
    /\ pc' = [pc EXCEPT ![r] = "cancelled"]
    /\ fut' = [fut EXCEPT ![r] = "none"]
    /\ gfut' = [gfut EXCEPT ![r] = "none"]
    /\ increment' = [increment EXCEPT ![r] = 0]
    /\ sleep' = [sleep EXCEPT ![r] = 0]
    /\ permit' = [permit EXCEPT ![r] = FALSE]
    /\ queue' = [d \in Discriminators |->
                    SelectSeq(queue[d], LAMBDA x : x # r)]
    /\ last' = [last EXCEPT ![r] = NoResponse]
    /\ UNCHANGED <<route, outcome, pos, bucket, throttleIn, remote, owner,
                   closed, op>>

\* A close that closes the session only.
CloseSessionOnly(c) ==
    /\ ~closed[c]
    /\ closed' = [closed EXCEPT ![c] = TRUE]
    /\ UNCHANGED <<pc, route, fut, gfut, increment, sleep, outcome, last, pos,
                   permit, bucket, queue, throttleIn, remote, owner, op>>

\* The requests of client c that wait for a permit of its bucket limiter.
BucketWaiters(c) ==
    { r \in Requests :
        owner[r] = c /\ pc[r] = "acquiring" /\ fut[r] = "pending" }

\* Lines 99-103, close: the bucket limiter manager of client c is closed,
\* which cancels the futures of its waiters (their gather, and with it
\* _request, ends with CancelledError), and the session is closed.  The
\* global limiter is not mentioned by close and stays as it is.
Close(c) ==
    /\ ~closed[c]
    /\ closed' = [closed EXCEPT ![c] = TRUE]
    /\ LET W == BucketWaiters(c) IN
       /\ pc' = [r \in Requests |-> IF r \in W THEN "cancelled" ELSE pc[r]]
       /\ fut' = [r \in Requests |-> IF r \in W THEN "none" ELSE fut[r]]
       /\ gfut' = [r \in Requests |-> IF r \in W THEN "none" ELSE gfut[r]]
       /\ outcome' = [r \in Requests |->
                        IF r \in W THEN Escaped("CancelledError", 0)
                        ELSE outcome[r]]
       /\ queue' = [d \in Discriminators |->
                       SelectSeq(queue[d], LAMBDA x : x \notin W)]
    /\ UNCHANGED <<route, increment, sleep, last, pos, permit, bucket,
                   throttleIn, remote, owner, op>>

Dec(n) == IF n > 0 THEN n - 1 ELSE 0

\* One second passes.
Tick ==
    /\ \/ \E c \in Clients : throttleIn[c] > 0
       \/ \E d \in Discriminators : bucket[d].resetIn > 0
       \/ \E r \in Requests : sleep[r] > 0
    /\ throttleIn' = [c \in Clients |-> Dec(throttleIn[c])]
    /\ bucket' = [d \in Discriminators |->
                    [bucket[d] EXCEPT !.resetIn = Dec(@)]]
    /\ sleep' = [r \in Requests |-> Dec(sleep[r])]
    /\ UNCHANGED <<pc, route, fut, gfut, increment, outcome, last, pos,
                   permit, queue, remote, owner, closed, op>>

Next ==
    \/ \E r \in Requests : Call(r)
    \/ \E d \in Discriminators : BucketAdmit(d)
    \/ \E r \in Requests : GlobalAdmit(r)
    \/ \E r \in Requests : Send(r)
    \/ \E r \in Requests : Respond(r)
    \/ \E r \in Requests : Wake(r)
    \/ \E r \in Requests : Cancel(r)
    \/ Tick

\* The steps of a run in which no caller cancels its request.
NextLive ==
    \/ \E r \in Requests : Call(r)
    \/ \E d \in Discriminators : BucketAdmit(d)
    \/ \E r \in Requests : GlobalAdmit(r)
    \/ \E r \in Requests : Send(r)
    \/ \E r \in Requests : Respond(r)
    \/ \E r \in Requests : Wake(r)
    \/ Tick

\* The steps of the coroutine of request r.
Step(r) ==
    Call(r) \/ GlobalAdmit(r) \/ Send(r) \/ Respond(r) \/ Wake(r)

\* The event loop runs every coroutine that can go on and the transport
\* answers every call, the manager resolves the futures it can resolve, and
\* time passes.
Fairness ==
    /\ \A r \in Requests : WF_vars(Step(r))
    /\ \A d \in Discriminators : WF_vars(BucketAdmit(d))
    /\ WF_vars(Tick)

\* The steps of a run in which clients are closed too.
NextClosing ==
    \/ Next
    \/ \E c \in Clients : Close(c)

---------------------------------------------------------------------------
(* Operations outside the request loop *)

\* Python values: None, the sentinel of an argument that was not given
\* (hikari.internal_utilities.unspecified.UNSPECIFIED, which is not None),
\* a string as the sequence of its characters or, where only its identity
\* matters, as a whole, and an integer.
PyNone == [type |-> "NoneType"]
Unspecified == [type |-> "Unspecified"]
Str(chars) == [type |-> "str", chars |-> chars]
Name(text) == [type |-> "str", text |-> text]
PyInteger(n) == [type |-> "int", val |-> n]

\* str.startswith(prefixes) for a tuple of prefixes.
StartsWith(chars, prefix) ==
    /\ Len(chars) >= Len(prefix)
    /\ SubSeq(chars, 1, Len(prefix)) = prefix

StartsWithAny(chars, prefixes) ==
    \E p \in prefixes : StartsWith(chars, p)

\* Line 56, _AUTHENTICATION_SCHEMES = ("Bearer", "Bot").
AuthenticationSchemes ==
    { <<"B", "e", "a", "r", "e", "r">>, <<"B", "o", "t">> }

\* The tokens a client is constructed with: none, one of each scheme, and
\* tokens of no scheme (another scheme, a scheme in lower case, a scheme
\* after a blank, a proper prefix of a scheme, the empty string).
Tokens ==
    { PyNone,
      Str(<<"B", "o", "t", " ", "x">>),
      Str(<<"B", "e", "a", "r", "e", "r", " ", "x">>),
      Str(<<"B", "o", "t">>),
      Str(<<"B", "o", "t", "t", "l", "e">>),
      Str(<<"B", "a", "s", "i", "c", " ", "x">>),
      Str(<<"b", "o", "t", " ", "x">>),
      Str(<<" ", "B", "o", "t", " ", "x">>),
      Str(<<"B", "o">>),
      Str(<<>>) }

\* A token check that takes every string.
TokenRejectedNever(token) == FALSE

\* Lines 93-96: the token is given and starts with no scheme.
TokenRejected(token) ==
    token # PyNone /\ ~StartsWithAny(token.chars, AuthenticationSchemes)

\* Lines 86-97, __init__ after the base class: the global limiter is made,
\* the bucket limiter manager is made and started, then the token is
\* checked and stored.  manager tells what has become of the manager when
\* __init__ ends.
Construct(token) ==
    IF TokenRejected(token)
    THEN [raised |-> "RuntimeError", manager |-> "started", token |-> PyNone]
    ELSE [raised |-> "none", manager |-> "started", token |-> token]

\* The parameters of a route and the values they are compiled with.
RouteParams == {"channel_id", "message_id"}
Ids == {42, 99}
RouteArgs == [RouteParams -> Ids]

\* routes.CHANNEL, PATCH /channels/{channel_id}, with its parameter
\* declared major.
CHANNEL ==
    [path |-> "/channels/{channel_id}", params |-> {"channel_id"},
     major |-> {"channel_id"}]

\* Route templates: CHANNEL, the same path with no major parameter, and a
\* path of two parameters of which the first is major.
RouteTemplates ==
    { CHANNEL,
      [path |-> "/channels/{channel_id}", params |-> {"channel_id"},
       major |-> {}],
      [path |-> "/channels/{channel_id}/messages/{message_id}",
       params |-> {"channel_id", "message_id"},
       major |-> {"channel_id"}] }

Methods == {"GET", "PATCH"}

\* Route.compile(method, **params): the compiled route.
Compile(method, t, args) ==
    [method |-> method, path |-> t.path,
     params |-> [p \in t.params |-> args[p]],
     major |-> [p \in t.major |-> args[p]]]

\* A discriminator made of every parameter of the compiled route.
DiscriminatorOfAllParams(cr) == <<cr.method, cr.path, cr.params>>

\* The bucket discriminator of a compiled route: method, path template
\* and major parameters.
Discriminator(cr) == <<cr.method, cr.path, cr.major>>

\* dict.update and item assignment on the request headers.
Put(h, k, v) == [n \in DOMAIN h \cup {k} |-> IF n = k THEN v ELSE h[n]]

\* Lines 124-130: the request headers of _request for a client with this
\* token, called with this reason and no headers of the caller's.
RequestHeaders(token, reason) ==
    LET h1 == [n \in {"X-RateLimit-Precision"} |->
                 Str(<<"m", "i", "l", "l", "i", "s", "e", "c", "o", "n", "d">>)]
        h2 == IF token # PyNone THEN Put(h1, "Authorization", token) ELSE h1
    IN IF reason # PyNone THEN Put(h2, "X-Audit-Log-Reason", reason)
       ELSE h2

\* The reasons modify_channel is called with: not given (its default, line
\* 347), None, a string.
Reasons == { Unspecified, PyNone, Str(<<"w", "h", "y">>) }

\* Lines 401-402 and 124-133: the request modify_channel makes.
ModifyChannel(token, channel_id, reason) ==
    [route |-> Compile("PATCH", CHANNEL,
                       [p \in RouteParams |-> channel_id]),
     headers |-> RequestHeaders(token, reason)]

\* model/channel.py lines 37-48, ChannelType: the members and their values.
ChannelTypeMembers ==
    [GUILD_TEXT |-> 0, DM |-> 1, GUILD_VOICE |-> 2, GROUP_DM |-> 3,
     GUILD_CATEGORY |-> 4, GUILD_NEWS |-> 5, GUILD_STORE |-> 6]

\* Attributes of the class ChannelType that are no members.
ChannelTypeAttributes == {"__doc__", "__members__"}

\* model/channel.py line 261, getattr(ChannelType, raw, raw): a name that
\* is no string raises TypeError; the name of a member gives the member;
\* the name of another attribute gives that attribute; any other name
\* gives raw itself.
GetAttr(raw) ==
    IF raw.type # "str"
    THEN [exc |-> "TypeError", value |-> raw]
    ELSE IF raw.text \in DOMAIN ChannelTypeMembers
    THEN [exc |-> "none",
          value |-> [type |-> "ChannelType",
                     val |-> ChannelTypeMembers[raw.text]]]
    ELSE IF raw.text \in ChannelTypeAttributes
    THEN [exc |-> "none", value |-> [type |-> "attribute"]]
    ELSE [exc |-> "none", value |-> raw]

\* model/channel.py lines 263-276: the class chosen for a member.
ChannelClass(v) ==
    CASE v = 0 -> "GuildTextChannel"
      [] v = 1 -> "DMChannel"
      [] v = 2 -> "GuildVoiceChannel"
      [] v = 3 -> "GroupDMChannel"
      [] v = 4 -> "GuildCategory"
      [] v = 5 -> "GuildNewsChannel"
      [] v = 6 -> "GuildStoreChannel"

\* model/channel.py lines 107, 142, 170, 198: the classes that define
\* from_dict.  GuildCategory, GuildNewsChannel and GuildStoreChannel (lines
\* 212-256) define none, nor do GuildChannel and Channel.
DefinesFromDict ==
    {"GuildTextChannel", "DMChannel", "GuildVoiceChannel", "GroupDMChannel"}

ChannelInstance(cls) == [raised |-> "none", class |-> cls, message |-> ""]
ChannelError(e, m) == [raised |-> e, class |-> "", message |-> m]

\* model/channel.py lines 259-278, channel_from_dict, for a payload that is
\* complete but for its type: what it can give.  Whether a class that
\* defines no from_dict inherits one from base.Snowflake is outside the
\* sources: both outcomes are kept.
ChannelFromDict(payload) ==
    IF ~payload.has_type THEN { ChannelError("KeyError", "type") }
    ELSE LET g == GetAttr(payload.type) IN
         IF g.exc # "none"
         THEN { ChannelError(g.exc, "attribute name must be string") }
         ELSE IF g.value.type = "ChannelType"
         THEN LET cls == ChannelClass(g.value.val) IN
              IF cls \in DefinesFromDict THEN { ChannelInstance(cls) }
              ELSE { ChannelInstance(cls),
                     ChannelError("AttributeError", "from_dict") }
         ELSE { ChannelError("TypeError", "Invalid channel type") }

\* The payloads handed to channel_from_dict: without a type, and with a
\* type that is an integer, the name of a member, another string, None.
TypeValues ==
    { PyInteger(n) : n \in -1..7 }
    \cup { Name(m) : m \in DOMAIN ChannelTypeMembers }
    \cup { Name("UNKNOWN"), Name("0"), Name("__doc__"), PyNone }

ChannelPayloads ==
    { [has_type |-> TRUE, type |-> t] : t \in TypeValues }
    \cup { [has_type |-> FALSE, type |-> PyNone] }

\* channel_from_dict(payload, state).
ChannelFromDictOp(payload) ==
    /\ \E out \in ChannelFromDict(payload) :
          op' = [name |-> "channel_from_dict", payload |-> payload,
                 out |-> out]
    /\ UNCHANGED <<pc, route, fut, gfut, increment, sleep, outcome, last, pos,
                   permit, bucket, queue, throttleIn, remote, owner, closed>>

\* HTTPClient(token=token).
ConstructOp(token) ==
    /\ op' = [name |-> "construct", token |-> token, out |-> Construct(token)]
    /\ UNCHANGED <<pc, route, fut, gfut, increment, sleep, outcome, last, pos,
                   permit, bucket, queue, throttleIn, remote, owner, closed>>

\* The same route compiled twice, with arguments a and b.
CompileTwice(method, t, a, b) ==
    /\ op' = [name |-> "compile", method |-> method, template |-> t,
              first |-> a, second |-> b,
              out |-> <<Discriminator(Compile(method, t, a)),
                        Discriminator(Compile(method, t, b))>>]
    /\ UNCHANGED <<pc, route, fut, gfut, increment, sleep, outcome, last, pos,
                   permit, bucket, queue, throttleIn, remote, owner, closed>>

\* modify_channel(channel_id, reason=reason) on a client that was
\* constructed with this token.
ModifyChannelOp(token, channel_id, reason) ==
    /\ Construct(token).raised = "none"
    /\ op' = [name |-> "modify_channel", token |-> token,
              channel_id |-> channel_id, reason |-> reason,
              out |-> ModifyChannel(Construct(token).token, channel_id,
                                    reason)]
    /\ UNCHANGED <<pc, route, fut, gfut, increment, sleep, outcome, last, pos,
                   permit, bucket, queue, throttleIn, remote, owner, closed>>

\* The steps of a run of operations outside the request loop.
NextOps ==
    \/ \E token \in Tokens : ConstructOp(token)
    \/ \E method \in Methods, t \in RouteTemplates, a, b \in RouteArgs :
          CompileTwice(method, t, a, b)
    \/ \E token \in Tokens, channel_id \in Ids, reason \in Reasons :
          ModifyChannelOp(token, channel_id, reason)
    \/ \E payload \in ChannelPayloads : ChannelFromDictOp(payload)

---------------------------------------------------------------------------
(* Specifications *)

\* The state common to every run right after HTTPClient.__init__.
Constructed ==
    /\ fut = [r \in Requests |-> "none"]
    /\ gfut = [r \in Requests |-> "none"]
    /\ increment = [r \in Requests |-> 0]
    /\ sleep = [r \in Requests |-> 0]
    /\ outcome = [r \in Requests |-> NoOutcome]
    /\ last = [r \in Requests |-> NoResponse]
    /\ pos = [r \in Requests |-> 1]
    /\ permit = [r \in Requests |-> FALSE]
    /\ queue = [d \in Discriminators |-> <<>>]
    /\ throttleIn = [c \in Clients |-> 0]
    /\ closed = [c \in Clients |-> FALSE]
    /\ op = NoOp

\* The routes of the requests of a run: all of one discriminator, or the
\* last one of another.
Workloads ==
    { [r \in Requests |-> "A"],
      [r \in Requests |-> IF r = NumReq THEN "B" ELSE "A"] }

\* A fresh client and NumReq concurrent requests to a well-behaved remote.
Init ==
    /\ Constructed
    /\ pc = [r \in Requests |-> "idle"]
    /\ route \in Workloads
    /\ bucket = [d \in Discriminators |-> UnknownBucket]
    /\ remote = "basic"
    /\ owner = [r \in Requests |-> "main"]

Spec == Init /\ [][Next]_vars

\* The bucket states earlier traffic can have left behind.
BucketStates ==
    { UnknownBucket }
    \cup { KnownBucket(q[2], q[1], k, "abc") :
             q \in Quotas, k \in 0..MaxDelta }

\* One request, to a remote that may answer anything, on a client whose
\* bucket for the route is in any state earlier traffic can have left.
InitAny ==
    /\ Constructed
    /\ pc = [r \in Requests |-> IF r = 1 THEN "idle" ELSE "unused"]
    /\ route = [r \in Requests |-> "A"]
    /\ bucket \in { [d \in Discriminators |->
                        IF d = "A" THEN b ELSE UnknownBucket] :
                    b \in BucketStates }
    /\ remote = "any"
    /\ owner = [r \in Requests |-> "main"]

SpecAny == InitAny /\ [][Next]_vars

\* The routes of a pair of requests: one discriminator, or one each.
PairWorkloads ==
    { [r \in Requests |-> "A"],
      [r \in Requests |-> IF r = 1 THEN "A" ELSE "B"] }

\* A fresh client and two concurrent requests to a remote that rate limits
\* globally.
InitGlobal ==
    /\ Constructed
    /\ pc = [r \in Requests |-> IF r <= 2 THEN "idle" ELSE "unused"]
    /\ route \in PairWorkloads
    /\ bucket = [d \in Discriminators |-> UnknownBucket]
    /\ remote = "global"
    /\ owner = [r \in Requests |-> "main"]

SpecGlobal == InitGlobal /\ [][Next]_vars

\* Two concurrent requests to a well-behaved remote, on a client whose
\* bucket for the first route is in any state earlier traffic can have left.
InitBuckets ==
    /\ Constructed
    /\ pc = [r \in Requests |-> IF r <= 2 THEN "idle" ELSE "unused"]
    /\ route \in PairWorkloads
    /\ bucket \in { [d \in Discriminators |->
                        IF d = "A" THEN b ELSE UnknownBucket] :
                    b \in BucketStates }
    /\ remote = "basic"
    /\ owner = [r \in Requests |-> "main"]

SpecBuckets == InitBuckets /\ [][Next]_vars

\* A fresh client and two concurrent requests to a well-behaved remote; the
\* client may be closed at any moment.
InitClosing ==
    /\ Constructed
    /\ pc = [r \in Requests |-> IF r <= 2 THEN "idle" ELSE "unused"]
    /\ route \in PairWorkloads
    /\ bucket = [d \in Discriminators |-> UnknownBucket]
    /\ remote = "basic"
    /\ owner = [r \in Requests |-> "main"]

SpecClosing == InitClosing /\ [][NextClosing]_vars

\* Two client objects in one process, a request issued through each, to a
\* remote that rate limits globally.  Every client has a bucket limiter
\* manager of its own: the two requests are for different discriminators,
\* so that a bucket is only ever used through one client; the bucket of the
\* first is in any state earlier traffic can have left.
InitClients ==
    /\ Constructed
    /\ pc = [r \in Requests |-> IF r <= 2 THEN "idle" ELSE "unused"]
    /\ route = [r \in Requests |-> IF r = 1 THEN "A" ELSE "B"]
    /\ bucket \in { [d \in Discriminators |->
                        IF d = "A" THEN b ELSE UnknownBucket] :
                    b \in BucketStates }
    /\ remote = "global"
    /\ owner = [r \in Requests |-> IF r = 1 THEN "main" ELSE "other"]

SpecClients == InitClients /\ [][Next]_vars

\* Operations outside the request loop, applied in any order with any of
\* their arguments; no request is made.
InitOps ==
    /\ Constructed
    /\ pc = [r \in Requests |-> "unused"]
    /\ route = [r \in Requests |-> "A"]
    /\ bucket = [d \in Discriminators |-> UnknownBucket]
    /\ remote = "basic"
    /\ owner = [r \in Requests |-> "main"]

SpecOps == InitOps /\ [][NextOps]_vars

\* A fresh client and two concurrent requests that are not cancelled, to a
\* well-behaved remote, with a fair event loop, transport and clock.
SpecLive == InitClosing /\ [][NextLive]_vars /\ Fairness

---------------------------------------------------------------------------
(* Claims *)

ThrottleOf(r) == throttleIn[owner[r]]
Active(r) == pc[r] \in {"acquiring", "sending", "backoff"}
Handling(r) == last[r] # NoResponse
IsClientError(s) == s >= 400 /\ s < 500 /\ s # 429

\* C1: a response with a client-error status (400-499 other than 429) ends
\* the request at once with the error classified for that status, whatever
\* its content type or body: no backoff, no other attempt.
C1_ClientErrorIsTerminal ==
    \A r \in Requests :
        (Handling(r) /\ IsClientError(last[r].status)) =>
            (pc[r] = "failed" /\ outcome[r].kind = ErrorClass(last[r].status))

\* C2: a 429 response is never surfaced: whatever its content type or body
\* the request neither raises nor returns, it goes on to another attempt.
C2_RateLimitedNeverSurfaced ==
    \A r \in Requests :
        (Handling(r) /\ last[r].status = 429) =>
            pc[r] \in {"acquiring", "backoff"}

\* C3: every response a request receives is fed to the manager's update
\* before the request retries, returns or raises: the step that handles the
\* response leaves the bucket of the route as update_rate_limits makes it
\* from that response's headers.
C3_EveryResponseUpdatesBucket ==
    [][\A r \in Requests :
        (pc[r] = "sending" /\ Handling(r)') =>
            bucket'[route[r]] =
                UpdateRateLimits(bucket[route[r]],
                                 ParseHeaders(last'[r].hdr))]_vars

\* C4: every send attempt, retries included, is preceded by its own
\* admission by the bucket limiter: a transport call starts only for a
\* request the limiter has admitted since its previous transport call.
C4_EverySendAdmitted ==
    [][\A r \in Requests :
        (pc[r] = "acquiring" /\ pc'[r] = "sending") => permit[r]]_vars

\* C5: for a known bucket whose local remaining is 0, no transport call for
\* its discriminator starts before the reset instant, except the calls whose
\* admission took the remaining down to 0.
C5_NoCallBeyondRemaining ==
    [][\A r \in Requests :
        (/\ pc[r] = "acquiring" /\ pc'[r] = "sending"
         /\ bucket[route[r]].known
         /\ bucket[route[r]].remaining = 0
         /\ bucket[route[r]].resetIn > 0) =>
            permit[r]]_vars

\* The requests of discriminator d that the bucket limiter has let through,
\* or that are in a transport call.
Through(d) ==
    { r \in Requests :
        route[r] = d /\ Active(r) /\ (fut[r] = "done" \/ pc[r] = "sending") }

\* C6: while a discriminator has never been seen (no response has updated
\* its bucket), exactly one of the requests that acquired it is let through,
\* the one holding the probe slot; every other one waits.
C6_OneProbePerUnknownBucket ==
    \A d \in Discriminators :
        ~bucket[d].known =>
            /\ Through(d) \subseteq {bucket[d].probe}
            /\ \A r \in Requests :
                 (route[r] = d /\ Active(r) /\ r # bucket[d].probe) =>
                     (fut[r] = "pending" /\ pc[r] = "acquiring")
            /\ (\E r \in Requests : route[r] = d /\ Active(r)) =>
                 bucket[d].probe # 0

\* A second request waits on a discriminator whose probe is in its
\* transport call.
C6_Witness ==
    \E d \in Discriminators : \E r1, r2 \in Requests :
        /\ r1 # r2 /\ route[r1] = d /\ route[r2] = d
        /\ ~bucket[d].known /\ bucket[d].probe = r1
        /\ pc[r1] = "sending"
        /\ pc[r2] = "acquiring" /\ fut[r2] = "pending"

\* C7: a request cancelled while it holds the probe slot of a discriminator
\* releases the slot: no discriminator stays marked in flight by a
\* cancelled request.
C7_CancelReleasesProbe ==
    \A d \in Discriminators :
        bucket[d].probe # 0 => pc[bucket[d].probe] # "cancelled"

\* C8: a response with status >= 500 either makes the request sleep the
\* delay its backoff yields and try again, or, the backoff exhausted, fails
\* it with the server error; nothing else.
C8_ServerErrorBacksOff ==
    \A r \in Requests :
        (Handling(r) /\ last[r].status >= 500) =>
            \/ pc[r] = "backoff" /\ increment[r] > 0
            \/ pc[r] = "acquiring" /\ sleep[r] = 0 /\ increment[r] > 0
            \/ pc[r] = "failed" /\ outcome[r].kind = "ServerHTTPError"

\* C9: a backoff yields MaxIncrement delays and no more: each server-error
\* response either ends the request or draws one more delay, and the
\* response that finds the backoff exhausted ends the request, so a request
\* answered by server errors alone stops after MaxIncrement + 1 attempts.
C9_BackoffTerminates ==
    /\ [](\A r \in Requests : increment[r] <= MaxIncrement)
    /\ [][\A r \in Requests :
            (pc[r] = "sending" /\ Handling(r)' /\ last'[r].status >= 500) =>
                \/ pc'[r] \in {"failed", "crashed"}
                \/ /\ pc'[r] = "backoff"
                   /\ increment[r] < MaxIncrement
                   /\ increment'[r] = increment[r] + 1
                   /\ sleep'[r] > 0]_vars

\* A request failed with the server error on a 500 whose body is a JSON
\* object: the backoff was exhausted by the failures before it.
C9_Witness ==
    \E r \in Requests :
        /\ pc[r] = "failed"
        /\ outcome[r].kind = "ServerHTTPError"
        /\ last[r].status = 500
        /\ last[r].ctype = "application/json"

\* A body that was decoded and has no usable message and code.
Malformed(resp) ==
    /\ DecodeBody(resp).how = "decoded"
    /\ LET b == DecodeBody(resp).body IN
       \/ b.kind # "object"
       \/ b.message = ABSENT
       \/ b.code = ABSENT
       \/ PyInt(b.code).exc # "none"

\* C10: an error response (status >= 400 other than 429) whose body is
\* absent, is no JSON object, lacks message or code, or has a code that is
\* no integer still ends in the error of its status, or in the server-error
\* retry, with the message "" and the code -1; no other exception escapes.
C10_MalformedBodyDefaults ==
    \A r \in Requests :
        (/\ Handling(r)
         /\ last[r].status >= 400 /\ last[r].status # 429
         /\ Malformed(last[r])) =>
            \/ /\ last[r].status < 500
               /\ pc[r] = "failed"
               /\ outcome[r].kind = ErrorClass(last[r].status)
               /\ outcome[r].message = ""
               /\ outcome[r].code = -1
            \/ /\ last[r].status >= 500
               /\ pc[r] = "failed"
               /\ outcome[r].kind = "ServerHTTPError"
               /\ outcome[r].message = ""
            \/ /\ last[r].status >= 500
               /\ pc[r] \in {"backoff", "acquiring"}

\* The classification the error table gives a status: the four named client
\* errors, the generic one for the rest of 400-499, the server error from
\* 500 on.
Classified(s) ==
    CASE s = 400 -> "BadRequestHTTPError"
      [] s = 401 -> "UnauthorizedHTTPError"
      [] s = 403 -> "ForbiddenHTTPError"
      [] s = 404 -> "NotFoundHTTPError"
      [] s >= 500 -> "ServerHTTPError"
      [] OTHER -> "ClientHTTPError"

\* C11: a request that fails on a status of 400-499 other than 429 fails
\* with the client error of that status (400 bad request, 401 unauthorized,
\* 403 forbidden, 404 not found, else the generic one), never with the
\* server error; a client error is never raised for a status >= 500.
C11_ClassifiedByStatus ==
    \A r \in Requests :
        pc[r] = "failed" =>
            /\ IsClientError(outcome[r].status) =>
                   outcome[r].kind = Classified(outcome[r].status)
            /\ outcome[r].kind \in ClientErrors =>
                   /\ IsClientError(outcome[r].status)
                   /\ outcome[r].kind = Classified(outcome[r].status)

\* C12: a 204 response completes the request with the empty result,
\* whatever content type it declares and whatever its body holds: the body
\* is not decoded.
C12_NoContentCompletes ==
    \A r \in Requests :
        (Handling(r) /\ last[r].status = 204) =>
            /\ pc[r] = "done"
            /\ outcome[r].kind = "returned"
            /\ outcome[r].value = NoneBody

\* C13: a success other than 204 whose content type is not JSON returns no
\* result: the request draws a delay from its backoff and tries again, or,
\* the backoff exhausted, fails.
C13_UnexpectedTypeIsTransient ==
    \A r \in Requests :
        (/\ Handling(r)
         /\ last[r].status >= 200 /\ last[r].status < 300
         /\ last[r].status # 204
         /\ last[r].ctype # "application/json") =>
            \/ pc[r] \in {"backoff", "acquiring"} /\ increment[r] > 0
            \/ pc[r] = "failed" /\ outcome[r].kind = "ServerHTTPError"

\* A 429 whose JSON body is flagged global and names its retry_after.
GlobalRetry(resp) ==
    /\ resp.status = 429
    /\ resp.ctype = "application/json"
    /\ resp.body.kind = "object"
    /\ resp.body.global = "true"
    /\ resp.body.retry_after \in {"1000", "2000"}

\* retry_after, milliseconds in the body, in seconds.
RetrySeconds(resp) == IF resp.body.retry_after = "1000" THEN 1 ELSE 2

\* C14: the step that handles a 429 flagged global with retry_after R ms
\* throttles the global limiter for R/1000 seconds from now and puts the
\* request back to acquiring with its global permit pending; no transport
\* call of the request starts while the throttle is in effect.
C14_GlobalRetryThrottles ==
    [][\A r \in Requests :
        /\ (pc[r] = "sending" /\ Handling(r)' /\ GlobalRetry(last'[r])) =>
              /\ ThrottleOf(r)' = RetrySeconds(last'[r])
              /\ pc'[r] = "acquiring"
              /\ gfut'[r] = "pending"
        /\ (pc[r] = "acquiring" /\ pc'[r] = "sending") =>
              ThrottleOf(r) = 0]_vars

\* A request throttled for two seconds by its 429 has waited them out and
\* holds its global permit for the next attempt.
C14_Witness ==
    \E r \in Requests :
        /\ pc[r] = "acquiring"
        /\ GlobalRetry(last[r]) /\ RetrySeconds(last[r]) = 2
        /\ ThrottleOf(r) = 0
        /\ gfut[r] = "done"

\* A 429 whose decoded body is flagged global: the flag is there and true.
FlaggedGlobal(resp) ==
    /\ resp.status = 429
    /\ resp.ctype = "application/json"
    /\ resp.body.kind = "object"
    /\ resp.body.global = "true"

\* C15: the step that handles a response leaves the global throttle as it
\* was unless the response is a 429 flagged global: a bucket-scope 429, a
\* success, a client error, a server error and an unexpected content type
\* do not touch it.
C15_OnlyGlobalRetryThrottles ==
    [][\A r \in Requests :
        (pc[r] = "sending" /\ Handling(r)' /\ ~FlaggedGlobal(last'[r])) =>
            throttleIn' = throttleIn]_vars

\* A 429 of bucket scope that names a retry_after was handled and the
\* request is back to acquiring, the global limiter not throttled.
C15_Witness ==
    \E r \in Requests :
        /\ pc[r] = "acquiring"
        /\ last[r].status = 429
        /\ last[r].ctype = "application/json"
        /\ last[r].body.global = "false"
        /\ last[r].body.retry_after = "1000"
        /\ ThrottleOf(r) = 0

\* C16: the step that handles a 429 draws no delay from the backoff of the
\* request and starts no backoff sleep, whatever the content type or body
\* of the 429.
C16_RateLimitedDrawsNoDelay ==
    [][\A r \in Requests :
        (pc[r] = "sending" /\ Handling(r)' /\ last'[r].status = 429) =>
            /\ increment'[r] <= increment[r]
            /\ pc'[r] # "backoff"
            /\ sleep'[r] = 0]_vars

\* C17: a transport call starts only for a request that holds both permits
\* of the attempt: the bucket limiter has admitted it since its previous
\* transport call, and its global acquire of this attempt has resolved.
C17_BothGatesBeforeSend ==
    [][\A r \in Requests :
        (pc[r] = "acquiring" /\ pc'[r] = "sending") =>
            (permit[r] /\ gfut[r] = "done")]_vars

\* C18: a throttle never shortens the throttle in effect: the step that
\* handles a 429 flagged global leaves the later of the instant it finds
\* and the instant it asks for, and no step but the passing of time brings
\* the throttle-until instant nearer.
C18_ThrottleNeverShortens ==
    [][/\ \A c \in Clients :
             \/ throttleIn'[c] >= throttleIn[c]
             \/ throttleIn'[c] = throttleIn[c] - 1 /\ pc' = pc
       /\ \A r \in Requests :
            (pc[r] = "sending" /\ Handling(r)' /\ GlobalRetry(last'[r])) =>
                ThrottleOf(r)'
                    = Max(ThrottleOf(r), RetrySeconds(last'[r]))]_vars

\* Two requests were throttled in the same second, one for two seconds and
\* one for one, and the throttle stands at two.
C18_Witness ==
    \E r1, r2 \in Requests :
        /\ r1 # r2
        /\ pc[r1] = "acquiring" /\ pc[r2] = "acquiring"
        /\ GlobalRetry(last[r1]) /\ RetrySeconds(last[r1]) = 2
        /\ GlobalRetry(last[r2]) /\ RetrySeconds(last[r2]) = 1
        /\ bucket[route[r1]].resetIn = 1 /\ bucket[route[r2]].resetIn = 1
        /\ ThrottleOf(r1) = 2

\* C19: a global acquire made while no throttle is in effect resolves at
\* once, one made under a throttle stays pending, and a pending one is
\* resolved only when the throttle is over, the throttle as it stands then,
\* extensions included.
C19_GlobalAcquireWaitsThrottle ==
    [][\A r \in Requests :
        /\ (pc[r] # "acquiring" /\ pc'[r] = "acquiring") =>
              gfut'[r] = IF ThrottleOf(r)' = 0 THEN "done" ELSE "pending"
        /\ (pc[r] = "acquiring" /\ gfut[r] = "pending"
              /\ gfut'[r] = "done") =>
              (ThrottleOf(r) = 0 /\ ThrottleOf(r)' = 0)]_vars

\* A request throttled for two seconds has waited one of them when the 429
\* of another request sets the throttle to two seconds again: its acquire
\* is still pending under the extended throttle.
C19_Witness ==
    \E r1, r2 \in Requests :
        /\ route[r1] # route[r2]
        /\ pc[r1] = "acquiring" /\ gfut[r1] = "pending"
        /\ GlobalRetry(last[r1]) /\ bucket[route[r1]].resetIn = 0
        /\ pc[r2] = "acquiring"
        /\ GlobalRetry(last[r2]) /\ RetrySeconds(last[r2]) = 2
        /\ bucket[route[r2]].resetIn = 1
        /\ ThrottleOf(r2) = 2

\* C20: the acquire of a request is resolved on a known bucket whose
\* remaining is 0 only once the reset instant is reached, and the admission
\* sets the local remaining to the ceiling last reported.
C20_ExhaustedBucketWaitsReset ==
    [][\A r \in Requests :
        (/\ ~permit[r] /\ permit'[r]
         /\ bucket[route[r]].known
         /\ bucket[route[r]].remaining = 0) =>
            /\ bucket[route[r]].resetIn = 0
            /\ bucket'[route[r]].remaining = bucket[route[r]].limit
            /\ fut'[r] = "done"]_vars

\* A request has acquired a known bucket with nothing remaining and its
\* reset ahead: its future is pending and it heads the bucket's queue.
C20_Witness ==
    \E r \in Requests :
        /\ pc[r] = "acquiring" /\ ~permit[r] /\ fut[r] = "pending"
        /\ queue[route[r]] = <<r>>
        /\ bucket[route[r]].known
        /\ bucket[route[r]].remaining = 0
        /\ bucket[route[r]].resetIn > 0

\* C21: every transport call, the first one included, starts with the
\* resource of the request at position 0, and so sends all of it.
C21_RewoundBeforeEverySend ==
    [][\A r \in Requests :
          (pc[r] = "acquiring" /\ pc'[r] = "sending") => pos[r] = 0]_vars

\* A request that has sent its resource once and failed is ready to send it
\* again, from its start.
C21_Witness ==
    \E r \in Requests :
        /\ pc[r] = "acquiring"
        /\ increment[r] > 0
        /\ GatherDone(r)
        /\ pos[r] = 0

\* C22: the backoff of a request is made once and lives through all its
\* attempts: while the request goes on, its attempt counter never goes back,
\* every backed-off failure advances it by exactly one, and no step of
\* another request changes it.
C22_OneBackoffPerRequest ==
    [][\A r \in Requests :
          /\ (Active(r) /\ Active(r)') => increment'[r] >= increment[r]
          /\ (pc[r] = "sending" /\ pc'[r] = "backoff")
                => increment'[r] = increment[r] + 1
          /\ increment'[r] # increment[r] => pc'[r] # pc[r]]_vars

\* Two requests in flight whose backoffs stand at different attempts: one
\* has failed twice and sleeps, the other has not failed at all.
C22_Witness ==
    \E r1, r2 \in Requests :
        /\ pc[r1] = "backoff" /\ increment[r1] = 2
        /\ pc[r2] = "sending" /\ increment[r2] = 0

\* C23: the remaining count of every known bucket lies between 0 and the
\* ceiling of the bucket, after any admissions and any updates from response
\* headers, those with absent headers included.
C23_RemainingWithinCeiling ==
    \A d \in Discriminators :
        bucket[d].known =>
            /\ 0 <= bucket[d].remaining
            /\ bucket[d].remaining <= bucket[d].limit

\* The rate-limit values a response shows, absent headers read with their
\* defaults.
ObservedRemaining(hdr) == IF hdr.remaining = -1 THEN 1 ELSE hdr.remaining
ObservedLimit(hdr) == IF hdr.limit = -1 THEN 1 ELSE hdr.limit
ObservedReset(hdr) == IF hdr.reset = -1 THEN 0 ELSE hdr.reset

\* The response the attempt of r ends with in this step reaches the update
\* of the bucket.
Updating(r) ==
    /\ pc[r] = "sending"
    /\ last'[r] # NoResponse
    /\ DecodeBody(last'[r]).how = "decoded"

\* C24: after the update made for a response, the remaining count, the
\* ceiling and the reset of the bucket are those of the response, whatever
\* the bucket held before.
C24_UpdateOverwrites ==
    [][\A r \in Requests :
          Updating(r) =>
              LET h == last'[r].hdr
                  b == bucket'[route[r]]
              IN /\ b.known
                 /\ b.remaining = ObservedRemaining(h)
                 /\ b.limit = ObservedLimit(h)
                 /\ b.resetIn = Max(0, ObservedReset(h) - h.date)]_vars

\* A request was admitted, which took one call off the bucket or made it
\* the probe, and its response reported the whole quota as remaining: the
\* bucket holds the whole quota.
C24_Witness ==
    \E r \in Requests :
        /\ pc[r] = "done"
        /\ Handling(r)
        /\ last[r].hdr.limit = MaxLimit
        /\ last[r].hdr.remaining = MaxLimit
        /\ bucket[route[r]].known
        /\ bucket[route[r]].remaining = MaxLimit
        /\ bucket[route[r]].limit = MaxLimit

\* C25: the reset of a bucket is reached (server reset - server now)
\* seconds after the local clock's reading at the update, however far the
\* local clock is from the server's.
C25_ResetFromServerDelta ==
    [][\A r \in Requests :
          (Updating(r) /\ last'[r].hdr.reset >= last'[r].hdr.date) =>
              bucket'[route[r]].resetIn
                  = last'[r].hdr.reset - last'[r].hdr.date]_vars

\* A response whose reset lies ahead of the server's clock has been
\* handled, and the bucket resets that many seconds from now.
C25_Witness ==
    \E r \in Requests :
        /\ Handling(r)
        /\ DecodeBody(last[r]).how = "decoded"
        /\ last[r].hdr.reset > last[r].hdr.date
        /\ bucket[route[r]].resetIn = last[r].hdr.reset - last[r].hdr.date
        /\ LocalNow(last[r].hdr.date) # last[r].hdr.date

\* Request r waits for the permit of its bucket.
Blocked(r) == pc[r] = "acquiring" /\ fut[r] = "pending"

\* The bucket of discriminator d, taken alone, lets a caller through: it is
\* unknown with no probe in flight, or known with quota left or its reset
\* reached; and nobody waits for it.
Free(d) ==
    /\ queue[d] = <<>>
    /\ IF bucket[d].known
       THEN bucket[d].remaining > 0 \/ bucket[d].resetIn = 0
       ELSE bucket[d].probe = 0

C27_WaitersAdmittedInOrder ==
    [][\A r \in Requests :
          LET d == route[r] IN
          /\ (pc[r] = "idle" /\ pc'[r] = "acquiring" /\ fut'[r] = "pending")
                => queue'[d] = Append(queue[d], r)
          /\ (pc[r] = "idle" /\ pc'[r] = "acquiring" /\ fut'[r] = "done")
                => queue[d] = <<>>
          /\ (fut[r] = "pending" /\ fut'[r] = "done")
                => (queue[d] # <<>> /\ Head(queue[d]) = r
                    /\ queue'[d] = Tail(queue[d]))]_vars

\* Two requests wait for the same bucket.
C27_Witness ==
    \E d \in Discriminators :
        /\ Len(queue[d]) = 2
        /\ \A i \in 1..2 : Blocked(queue[d][i]) /\ route[queue[d][i]] = d

\* C28: the close of a client cancels every request of the client that
\* waits for a bucket permit: each gets the cancellation and leaves the
\* line of waiters, and none waits for a bucket of a closed client.
C28_CloseCancelsBucketWaiters ==
    [][\A r \in Requests :
          /\ (~closed[owner[r]] /\ closed'[owner[r]] /\ Blocked(r)) =>
                /\ pc'[r] = "cancelled"
                /\ outcome'[r].kind = "CancelledError"
                /\ \A d \in Discriminators :
                      \A i \in 1..Len(queue'[d]) : queue'[d][i] # r
          /\ closed'[owner[r]] => ~Blocked(r)']_vars

\* The client was closed while a request waited behind the probe of its
\* bucket: the waiter has been cancelled, the probe is still in flight.
C28_Witness ==
    \E r1, r2 \in Requests :
        /\ closed[owner[r1]] /\ owner[r2] = owner[r1]
        /\ route[r1] = route[r2]
        /\ pc[r1] = "cancelled" /\ outcome[r1].kind = "CancelledError"
        /\ pc[r2] = "sending" /\ bucket[route[r2]].probe = r2

\* C29: the close of a client disposes its global limiter: no request of a
\* closed client is suspended at the global gate.
C29_CloseDisposesGlobalLimiter ==
    \A r \in Requests :
        closed[owner[r]] => ~(pc[r] = "acquiring" /\ gfut[r] = "pending")

\* C30: there is one global limiter in the process: while a global throttle
\* tripped by any request is in effect, the global acquire of every request
\* stays pending, whichever client object the request is issued through.
C30_OneGlobalLimiterPerProcess ==
    [][\A r \in Requests :
          /\ (pc[r] # "acquiring" /\ pc'[r] = "acquiring"
                /\ gfut'[r] = "done")
                => \A c \in Clients : throttleIn'[c] = 0
          /\ (pc[r] = "acquiring" /\ gfut[r] = "pending"
                /\ gfut'[r] = "done")
                => \A c \in Clients : throttleIn[c] = 0]_vars

\* The client errors whose class stands for one status.
StatusInClass ==
    {"BadRequestHTTPError", "UnauthorizedHTTPError", "ForbiddenHTTPError",
     "NotFoundHTTPError"}

\* C31: the error of every request that fails on a response whose body was
\* looked into for a message and a code is made with the compiled route,
\* that message and that code, and the status of the response, which it has
\* as an argument or by its class.
C31_FailureCarriesContext ==
    \A r \in Requests :
        (pc[r] = "failed" /\ Handling(r)
           /\ DecodeBody(last[r]).how = "decoded") =>
            /\ {"route", "message", "code"} \subseteq outcome[r].passed
            /\ \/ "status" \in outcome[r].passed
               \/ outcome[r].kind \in StatusInClass

\* C33: a request returns a result to its caller only on a response whose
\* status is in 200-299.
C33_ReturnsOnlyOnSuccess ==
    \A r \in Requests :
        (pc[r] = "done" /\ outcome[r].kind = "returned") =>
            (outcome[r].status >= 200 /\ outcome[r].status <= 299)

DifferOnlyIn(ps) ==
    \A p \in op.template.params :
        (op.first[p] = op.second[p]) <=> (p \notin ps)

\* C32: two compilations of a route with the same method and the same
\* parameter values have the same bucket discriminator; two that differ in
\* the value of one parameter have different discriminators if the
\* parameter is declared major for the route and the same one if not.
C32_DiscriminatorByMajorParameters ==
    op.name = "compile" =>
        /\ DifferOnlyIn({}) => op.out[1] = op.out[2]
        /\ \A p \in op.template.params :
              DifferOnlyIn({p}) =>
                  ((op.out[1] # op.out[2]) <=> (p \in op.template.major))

\* A route of two parameters was compiled twice, with the same value for
\* the major one and different values for the other: one discriminator.
C32_Witness ==
    /\ op.name = "compile"
    /\ op.template.major = {"channel_id"}
    /\ op.template.params = {"channel_id", "message_id"}
    /\ op.first["channel_id"] = op.second["channel_id"]
    /\ op.first["message_id"] # op.second["message_id"]
    /\ op.out[1] = op.out[2]

\* C35: the request of modify_channel carries the audit reason header if
\* and only if the caller gave a reason, the precision header always, and
\* the authorization header exactly when the client has a token.
C35_ReasonHeaderOnlyWhenGiven ==
    op.name = "modify_channel" =>
        LET h == DOMAIN op.out.headers IN
        /\ ("X-Audit-Log-Reason" \in h) <=> (op.reason.type = "str")
        /\ "X-RateLimit-Precision" \in h
        /\ ("Authorization" \in h) <=> (op.token # PyNone)

\* The characters start with "Bearer" or with "Bot".
HasScheme(chars) ==
    \/ Len(chars) >= 6
         /\ SubSeq(chars, 1, 6) = <<"B", "e", "a", "r", "e", "r">>
    \/ Len(chars) >= 3 /\ SubSeq(chars, 1, 3) = <<"B", "o", "t">>

\* C37: the construction of a client raises RuntimeError for a token that
\* is given and starts with neither scheme; any other token is accepted and
\* stored as it is; and the request of a client without a token has no
\* authorization header.
C37_TokenChecked ==
    /\ op.name = "construct" =>
          IF op.token # PyNone /\ ~HasScheme(op.token.chars)
          THEN op.out.raised = "RuntimeError"
          ELSE op.out.raised = "none" /\ op.out.token = op.token
    /\ (op.name = "modify_channel" /\ op.token = PyNone) =>
          "Authorization" \notin DOMAIN op.out.headers

\* A client was asked for with a token whose scheme is in lower case, and
\* the construction raised.
C37_Witness ==
    /\ op.name = "construct"
    /\ op.token = Str(<<"b", "o", "t", " ", "x">>)
    /\ op.out.raised = "RuntimeError"

\* C38: a construction that fails leaves no bucket limiter manager started:
\* none was started, or the one started has been closed.
C38_FailedConstructionLeavesNoManager ==
    (op.name = "construct" /\ op.out.raised # "none") =>
        op.out.manager \in {"none", "closed"}

\* The type of the payload names one of the seven channel types, by its
\* value or by its name.
KnownChannelType(t) ==
    \/ t.type = "int" /\ t.val \in 0..6
    \/ t.type = "str" /\ t.text \in
          {"GUILD_TEXT", "DM", "GUILD_VOICE", "GROUP_DM", "GUILD_CATEGORY",
           "GUILD_NEWS", "GUILD_STORE"}

\* The class of a channel type given by its value or by its name.
ClassOfType(t) ==
    LET v == IF t.type = "int" THEN t.val
             ELSE CASE t.text = "GUILD_TEXT" -> 0
                    [] t.text = "DM" -> 1
                    [] t.text = "GUILD_VOICE" -> 2
                    [] t.text = "GROUP_DM" -> 3
                    [] t.text = "GUILD_CATEGORY" -> 4
                    [] t.text = "GUILD_NEWS" -> 5
                    [] t.text = "GUILD_STORE" -> 6
    IN CASE v = 0 -> "GuildTextChannel"
         [] v = 1 -> "DMChannel"
         [] v = 2 -> "GuildVoiceChannel"
         [] v = 3 -> "GroupDMChannel"
         [] v = 4 -> "GuildCategory"
         [] v = 5 -> "GuildNewsChannel"
         [] v = 6 -> "GuildStoreChannel"

\* C39: for a payload whose type is one of the seven channel types, given
\* by value or by name, channel_from_dict returns an instance of the class
\* of that type; for any other type it raises TypeError, invalid channel
\* type.
C39_ChannelClassByType ==
    (op.name = "channel_from_dict" /\ op.payload.has_type) =>
        IF KnownChannelType(op.payload.type)
        THEN /\ op.out.raised = "none"
             /\ op.out.class = ClassOfType(op.payload.type)
        ELSE /\ op.out.raised = "TypeError"
             /\ op.out.message = "Invalid channel type"

\* Request r is rate limited in this step: its attempt ends on a 429 and the
\* loop goes on at once.
RateLimited(r) == pc[r] = "sending" /\ pc'[r] = "acquiring"

\* Request r has ended: it has returned, or raised one of its errors.
Ended(r) == pc[r] \in {"done", "failed"}

\* C36: when the server answers 429 only finitely many times and the bucket
\* limiter keeps admitting (again and again no request is left waiting for
\* its bucket), every request ends: from every state in which it is under
\* way it comes to return or to raise.
C36_EndsUnlessRateLimitedForEver ==
    ( /\ <>[][\A r \in Requests : ~RateLimited(r)]_vars
      /\ []<>(\A r \in Requests : ~Blocked(r)) )
    => \A r \in Requests : Active(r) ~> Ended(r)

\* Both requests of one bucket have ended: one has returned, the other has
\* failed on a server error after the retries its backoff allows.
C36_Witness ==
    \E r1, r2 \in Requests :
        /\ route[r1] = route[r2]
        /\ pc[r1] = "failed"
        /\ outcome[r1].kind = "ServerHTTPError"
        /\ pc[r2] = "done"
====
